---- MODULE Spec2Model ----
(***************************************************************************)
(* Model of src/bank_account.py: class BankAccount(ABC, Subject).          *)
(*                                                                         *)
(* Money is a Python float.  A float is modelled as a record               *)
(*   [k |-> "fin", v |-> n]   a finite value of n cents                    *)
(*   [k |-> "inf", v |-> 1]   +infinity      [k |-> "inf", v |-> -1] -inf  *)
(*   [k |-> "nan", v |-> 0]   not-a-number                                 *)
(* with the IEEE-754 rules for +, unary -, <, <=, > and ==.  Finite        *)
(* arithmetic is exact on the cent grid (rounding is not modelled).        *)
(*                                                                         *)
(* A Python argument is a tagged value: int, float, str or None.           *)
(***************************************************************************)
EXTENDS Integers, Sequences, FiniteSets, TLC

\* ---------------------------------------------------------------- bounds
\* Number of deposit / withdraw calls explored on one account.
MaxCalls == 2

\* ------------------------------------------------------- program constants
\* LARGE_TRANSACTION_THRESHOLD: float = 9999.99   (in cents)
LARGE_TRANSACTION_THRESHOLD == 999999
\* LOW_BALANCE_LEVEL: float = 50.0                (in cents)
LOW_BALANCE_LEVEL == 5000

\* ------------------------------------------------------------------ floats
Fin(n) == [k |-> "fin", v |-> n]
NaN == [k |-> "nan", v |-> 0]
PInf == [k |-> "inf", v |-> 1]
NInf == [k |-> "inf", v |-> -1]

IsNaN(a) == a.k = "nan"
IsFinite(a) == a.k = "fin"

\* a + b on floats
FAdd(a, b) ==
    IF IsNaN(a) \/ IsNaN(b) THEN NaN
    ELSE IF a.k = "inf" /\ b.k = "inf" THEN (IF a.v = b.v THEN a ELSE NaN)
    ELSE IF a.k = "inf" THEN a
    ELSE IF b.k = "inf" THEN b
    ELSE Fin(a.v + b.v)

\* -a on floats
FNeg(a) == IF IsNaN(a) THEN NaN ELSE [k |-> a.k, v |-> 0 - a.v]

\* a < b on floats: every comparison with NaN is False
FLt(a, b) ==
    IF IsNaN(a) \/ IsNaN(b) THEN FALSE
    ELSE IF a.k = "inf" THEN a.v = -1 /\ ~(b.k = "inf" /\ b.v = -1)
    ELSE IF b.k = "inf" THEN b.v = 1
    ELSE a.v < b.v

\* a == b on floats: NaN is equal to nothing, itself included
FEq(a, b) == ~IsNaN(a) /\ ~IsNaN(b) /\ a = b

FGt(a, b) == FLt(b, a)
FLe(a, b) == FLt(a, b) \/ FEq(a, b)
FGe(a, b) == FLe(b, a)

\* ----------------------------------------------------------- Python values
PyInt(n) == [t |-> "int", n |-> n, f |-> NaN, s |-> ""]
PyFloat(x) == [t |-> "float", n |-> 0, f |-> x, s |-> ""]
PyStr(str) == [t |-> "str", n |-> 0, f |-> NaN, s |-> str]
PyNone == [t |-> "NoneType", n |-> 0, f |-> NaN, s |-> ""]

\* isinstance(x, int)
IsInstanceInt(x) == x.t = "int"

NoError == [type |-> "none", text |-> "", args |-> <<>>]
Raise(type, text, args) == [type |-> type, text |-> text, args |-> args]

\* float(str): the strings the model feeds in, parsed as Python parses them
ParseFloat(str) ==
    CASE str = "nan" -> [exc |-> "none", val |-> NaN]
      [] str = "inf" -> [exc |-> "none", val |-> PInf]
      [] str = "-inf" -> [exc |-> "none", val |-> NInf]
      [] str = "60" -> [exc |-> "none", val |-> Fin(6000)]
      [] str = "-5.5" -> [exc |-> "none", val |-> Fin(-550)]
      [] OTHER -> [exc |-> "ValueError", val |-> NaN]

\* float(x): an int money value n is n cents
ToFloat(x) ==
    CASE x.t = "int" -> [exc |-> "none", val |-> Fin(x.n)]
      [] x.t = "float" -> [exc |-> "none", val |-> x.f]
      [] x.t = "str" -> ParseFloat(x.s)
      [] OTHER -> [exc |-> "TypeError", val |-> NaN]

\* --------------------------------------------------------------- messages
\* f"Low balance warning {self.balance}: on account {self.account_number}"
LowBalanceMessage(balance, account_number) ==
    [kind |-> "Low balance warning", delta |-> <<>>,
     account |-> account_number, balance |-> balance]

\* f"Large transaction {amount}: on account {self.account_number}\n
\*   Details: updated balance is {self.balance}"
LargeTransactionMessage(amount, account_number, balance) ==
    [kind |-> "Large transaction", delta |-> <<amount>>,
     account |-> account_number, balance |-> balance]

\* ------------------------------------------------------ Subject (observer)
\* The listeners a test or host may register.
Listeners == {"L1", "L2"}
\* Number of registered listeners explored.
MaxObservers == 1

\* What the listeners do with one published message: "none", every listener
\* returns; otherwise one of the registered listeners raises that exception.
ListenerOutcomes(observers) ==
    {"none"} \cup (IF Len(observers) > 0 THEN {"ValueError", "RuntimeError"} ELSE {})

\* Subject.notify(message): synchronous delivery in subscription order; an
\* exception of a listener ends the delivery and propagates to the publisher.
Notify(observers, message, outcome) ==
    [message |-> message, exc |-> outcome]

\* ------------------------------------------------------------ BankAccount
\* DEFAULT: date.fromisoformat("1970-01-01")
EpochDate == "1970-01-01"

\* Variant: the low-balance test written with <= instead of <.
LowBalanceCheckLe(balance) == FLe(balance, Fin(LOW_BALANCE_LEVEL))

\* if self.balance < self.LOW_BALANCE_LEVEL
LowBalanceCheck(balance) == FLt(balance, Fin(LOW_BALANCE_LEVEL))

\* Variant: the large-transaction test applied to the delta, not the balance.
LargeTransactionCheckAmount(balance, amount) ==
    FGt(amount, Fin(LARGE_TRANSACTION_THRESHOLD))

\* Variant: the large-transaction test written with >= instead of >.
LargeTransactionCheckGe(balance, amount) ==
    FGe(balance, Fin(LARGE_TRANSACTION_THRESHOLD))

\* if self.balance > self.LARGE_TRANSACTION_THRESHOLD
LargeTransactionCheck(balance, amount) ==
    FGt(balance, Fin(LARGE_TRANSACTION_THRESHOLD))

\* BankAccount.updated_balance(amount), on the attribute dict self.
\* o1, o2: what the listeners do with the low-balance and with the
\* large-transaction message.  Result: the new balance, the messages handed
\* to notify, and the exception the call ends in.
updated_balance(self, amount, o1, o2) ==
    LET balance == FAdd(self.balance, amount)
        low == LowBalanceCheck(balance)
        lowMsg == LowBalanceMessage(balance, self.account_number)
        n1 == IF low THEN Notify(self.observers, lowMsg, o1)
                     ELSE [message |-> <<>>, exc |-> "none"]
        large == LargeTransactionCheck(balance, amount)
        largeMsg == LargeTransactionMessage(amount, self.account_number, balance)
        n2 == IF large THEN Notify(self.observers, largeMsg, o2)
                       ELSE [message |-> <<>>, exc |-> "none"]
        wrap(e) == IF e = "ValueError"
                   THEN Raise("ValueError", "Amount must be numeric.", <<>>)
                   ELSE Raise(e, "raised by a listener", <<>>)
    IN  IF n1.exc # "none"
        THEN [balance |-> balance, published |-> <<lowMsg>>, exc |-> wrap(n1.exc)]
        ELSE IF n2.exc # "none"
        THEN [balance |-> balance,
              published |-> (IF low THEN <<lowMsg>> ELSE <<>>) \o <<largeMsg>>,
              exc |-> wrap(n2.exc)]
        ELSE [balance |-> balance,
              published |-> (IF low THEN <<lowMsg>> ELSE <<>>) \o
                            (IF large THEN <<largeMsg>> ELSE <<>>),
              exc |-> NoError]

\* The result of a call that raised before updated_balance was reached.
Rejected(self, exc) ==
    [balance |-> self.balance, published |-> <<>>, exc |-> exc, reached |-> FALSE]

Applied(r) ==
    [balance |-> r.balance, published |-> r.published, exc |-> r.exc,
     reached |-> TRUE]

\* Variant: the insufficient-funds comparison written the wrong way round.
ExceedsBalanceSwapped(amount, balance) == FLt(amount, balance)

\* withdraw: elif amount > self.__balance
ExceedsBalance(amount, balance) == FGt(amount, balance)

\* BankAccount.deposit(amount)
deposit(self, amount, o1, o2) ==
    LET c == ToFloat(amount)
    IN  IF c.exc # "none"
        THEN Rejected(self, Raise("ValueError", "Deposit amount must be numeric.", <<>>))
        ELSE IF FLe(c.val, Fin(0))
        THEN Rejected(self, Raise("ValueError", "Deposit amount must be positive.",
                                  <<c.val>>))
        ELSE Applied(updated_balance(self, c.val, o1, o2))

\* BankAccount.withdraw(amount)
withdraw(self, amount, o1, o2) ==
    LET c == ToFloat(amount)
    IN  IF c.exc # "none"
        THEN Rejected(self, Raise("ValueError", "Withdraw amount must be numeric.", <<>>))
        ELSE IF FLe(c.val, Fin(0))
        THEN Rejected(self, Raise("ValueError", "Withdraw amount must be positive.",
                                  <<c.val>>))
        ELSE IF ExceedsBalance(c.val, self.balance)
        THEN Rejected(self, Raise("ValueError",
                 "Withdrawal amount must not exceed the current account balance",
                 <<c.val, self.balance>>))
        ELSE Applied(updated_balance(self, FNeg(c.val), o1, o2))

\* The attribute dict of an object whose __init__ has not run.
NoAttributes == [observers |-> <<>>]

\* Variant: the balance falls back to 0.0 and the raise is forgotten.
BalanceParseDefault(attrs) ==
    [self |-> attrs @@ [balance |-> Fin(0)], exc |-> NoError]

\* The balance branch of __init__ when float(balance) raises:
\* self.__balance = 0.0; raise ValueError("Invalid balance, set to $0.0")
BalanceParseFailure(attrs) ==
    [self |-> attrs @@ [balance |-> Fin(0)],
     exc |-> Raise("ValueError", "Invalid balance, set to $0.0", <<>>)]

\* BankAccount.__init__(account_number, client_number, balance, date_created):
\* the attributes set when it ends, and the exception it ends in.
init(account_number, client_number, balance, date_created) ==
    LET s0 == [observers |-> <<>>,
               date_created |-> IF date_created = "None" THEN EpochDate
                                ELSE date_created]
        s1 == s0 @@ [account_number |-> account_number.n]
        s2 == s1 @@ [client_number |-> client_number.n]
        c == ToFloat(balance)
    IN  IF ~IsInstanceInt(account_number)
        THEN [self |-> s0, exc |-> Raise("ValueError", "account number is invlid", <<>>)]
        ELSE IF ~IsInstanceInt(client_number)
        THEN [self |-> s1, exc |-> Raise("ValueError", "client number is invalid", <<>>)]
        ELSE IF c.exc # "none"
        THEN BalanceParseFailure(s2)
        ELSE [self |-> s2 @@ [balance |-> c.val], exc |-> NoError]

\* ------------------------------------------------------------------ inputs
\* Money is in cents: PyInt(6000) is the Python int 60, PyFloat(Fin(4000))
\* the float 40.0.  Account and client numbers are plain integers.
AccountNumberArgs == {PyInt(1001), PyStr("1001"), PyNone}
ClientNumberArgs == {PyInt(5001), PyFloat(Fin(500100)), PyNone}
BalanceArgs ==
    {PyFloat(Fin(10000)), PyInt(0), PyFloat(Fin(-2000)), PyFloat(Fin(1000000)),
     PyStr("60"), PyStr("nan"), PyStr("inf"), PyStr("-inf"), PyStr("abc"), PyNone}
DateArgs == {"None", "2024-05-01"}
AmountArgs ==
    {PyInt(6000), PyFloat(Fin(4000)), PyInt(1000), PyInt(1000000),
     PyFloat(Fin(989999)), PyInt(0), PyStr("-5.5"),
     PyStr("nan"), PyStr("inf"), PyStr("abc"), PyNone}

\* ------------------------------------------------------------------- state
VARIABLES
    heap,   \* the attribute dict of the BankAccount object (set by __init__)
    acct,   \* TRUE when the caller holds the object: its construction returned
    last,   \* the most recent call: arguments, balance before, how it ended
    calls   \* deposit / withdraw calls made on the account

vars == <<heap, acct, last, calls>>

Call(op, args, before, r) ==
    [op |-> op, args |-> args, before |-> before, exc |-> r.exc,
     reached |-> r.reached, published |-> r.published]

Init ==
    /\ heap = NoAttributes
    /\ acct = FALSE
    /\ last = Call("none", <<>>, NaN,
                   [exc |-> NoError, reached |-> FALSE, published |-> <<>>])
    /\ calls = 0

\* account = BankAccount(account_number, client_number, balance, date_created)
Construct(account_number, client_number, balance, date_created) ==
    /\ ~acct
    /\ LET r == init(account_number, client_number, balance, date_created)
       IN  /\ heap' = r.self
           /\ acct' = (r.exc = NoError)
           /\ last' = Call("init", <<account_number, client_number, balance>>, NaN,
                           [exc |-> r.exc, reached |-> FALSE, published |-> <<>>])
    /\ calls' = 0

\* account.deposit(amount)
Deposit(amount, o1, o2) ==
    /\ acct
    /\ calls < MaxCalls
    /\ LET r == deposit(heap, amount, o1, o2)
       IN  /\ heap' = [heap EXCEPT !.balance = r.balance]
           /\ last' = Call("deposit", <<amount>>, heap.balance, r)
    /\ calls' = calls + 1
    /\ UNCHANGED acct

\* account.withdraw(amount)
Withdraw(amount, o1, o2) ==
    /\ acct
    /\ calls < MaxCalls
    /\ LET r == withdraw(heap, amount, o1, o2)
       IN  /\ heap' = [heap EXCEPT !.balance = r.balance]
           /\ last' = Call("withdraw", <<amount>>, heap.balance, r)
    /\ calls' = calls + 1
    /\ UNCHANGED acct

\* list.remove: the first occurrence of x leaves the list
RemoveFirst(seq, x) ==
    IF \E i \in 1..Len(seq) : seq[i] = x
    THEN LET i == CHOOSE j \in 1..Len(seq) :
                      seq[j] = x /\ \A m \in 1..(j - 1) : seq[m] # x
         IN  SubSeq(seq, 1, i - 1) \o SubSeq(seq, i + 1, Len(seq))
    ELSE seq

\* account.attach(listener): subscribe
Attach(listener) ==
    /\ acct
    /\ Len(heap.observers) < MaxObservers
    /\ heap' = [heap EXCEPT !.observers = Append(@, listener)]
    /\ UNCHANGED <<acct, last, calls>>

\* account.detach(listener): unsubscribe, a no-op for an unknown listener
Detach(listener) ==
    /\ acct
    /\ heap' = [heap EXCEPT !.observers = RemoveFirst(@, listener)]
    /\ UNCHANGED <<acct, last, calls>>

Next ==
    \/ \E an \in AccountNumberArgs, cn \in ClientNumberArgs,
          b \in BalanceArgs, d \in DateArgs : Construct(an, cn, b, d)
    \/ \E a \in AmountArgs, o1, o2 \in ListenerOutcomes(heap.observers) :
          Deposit(a, o1, o2)
    \/ \E a \in AmountArgs, o1, o2 \in ListenerOutcomes(heap.observers) :
          Withdraw(a, o1, o2)
    \/ \E l \in Listeners : Attach(l)
    \/ \E l \in Listeners : Detach(l)

Spec == Init /\ [][Next]_vars

\* ------------------------------------------------------------- properties
IsUpdateCall == last.op \in {"deposit", "withdraw"}
\* The amount of the last deposit / withdraw call, as float(amount) gives it.
LastAmount == ToFloat(last.args[1])
IsNumeric == LastAmount.exc = "none"
Zero == Fin(0)
LowMessages == {i \in 1..Len(last.published) :
                   last.published[i].kind = "Low balance warning"}
LargeMessages == {i \in 1..Len(last.published) :
                     last.published[i].kind = "Large transaction"}
\* The delta the last call hands to updated_balance.
LastDelta == IF last.op = "withdraw" THEN FNeg(LastAmount.val) ELSE LastAmount.val

\* C1: a deposit or withdraw call that ends in an error leaves the balance
\* as it was before the call, whatever raised the error.
C1_ErrorLeavesBalance ==
    (IsUpdateCall /\ last.exc # NoError) => heap.balance = last.before

\* C2: deposit(x) with a numeric x > 0 leaves the balance equal to the
\* balance before the call plus x.
C2_DepositAddsAmount ==
    (last.op = "deposit" /\ IsNumeric /\ FGt(LastAmount.val, Zero))
        => FEq(heap.balance, FAdd(last.before, LastAmount.val))

\* C3: withdraw(x) with 0 < x <= balance succeeds and leaves the balance
\* equal to the balance before minus x; x == balance leaves it at 0.
C3_WithdrawSubtractsAmount ==
    (last.op = "withdraw" /\ IsNumeric /\ FGt(LastAmount.val, Zero)
        /\ FLe(LastAmount.val, last.before))
        => /\ last.exc = NoError
           /\ FEq(heap.balance, FAdd(last.before, FNeg(LastAmount.val)))
           /\ (FEq(LastAmount.val, last.before) => FEq(heap.balance, Zero))

\* C4: a deposit of a non-numeric or <= 0 amount, and a withdraw of a
\* non-numeric, <= 0 or too large amount, ends in an error before the
\* balance update is reached: balance unchanged, nothing published.
C4_RejectedBeforeUpdate ==
    (IsUpdateCall /\
        (\/ ~IsNumeric
         \/ FLe(LastAmount.val, Zero)
         \/ (last.op = "withdraw" /\ FGt(LastAmount.val, last.before))))
        => /\ last.exc.type = "ValueError"
           /\ ~last.reached
           /\ heap.balance = last.before
           /\ last.published = <<>>

C4_Witness ==
    /\ last.op = "withdraw" /\ IsNumeric
    /\ IsFinite(LastAmount.val) /\ IsFinite(last.before)
    /\ FGt(LastAmount.val, last.before)
    /\ last.exc.type = "ValueError" /\ ~last.reached

\* C5: after every balance update a low-balance message is published iff
\* the new balance is strictly below LOW_BALANCE_LEVEL, also when the balance
\* was already below it; the message carries the new balance and the
\* account number.
C5_LowBalanceIffBelow ==
    (IsUpdateCall /\ last.reached)
        => /\ (LowMessages # {}) <=> FLt(heap.balance, Fin(LOW_BALANCE_LEVEL))
           /\ \A i \in LowMessages :
                 last.published[i] =
                     LowBalanceMessage(heap.balance, heap.account_number)

C5_Witness ==
    /\ last.op = "deposit" /\ last.reached
    /\ IsFinite(last.before) /\ IsFinite(heap.balance)
    /\ FLt(last.before, Fin(LOW_BALANCE_LEVEL))
    /\ FLt(heap.balance, Fin(LOW_BALANCE_LEVEL))
    /\ LowMessages # {}

C7_BalanceFinite == acct => IsFinite(heap.balance)

\* C8: construction with a non-integer account number, a non-integer client
\* number or an unparseable balance ends in an error and leaves the caller
\* without an account object.
C8_FailedConstructionLeavesNoObject ==
    (last.op = "init" /\
        (\/ ~IsInstanceInt(last.args[1])
         \/ ~IsInstanceInt(last.args[2])
         \/ ToFloat(last.args[3]).exc # "none"))
        => last.exc.type = "ValueError" /\ ~acct

C8_Witness ==
    /\ last.op = "init"
    /\ IsInstanceInt(last.args[1]) /\ IsInstanceInt(last.args[2])
    /\ ToFloat(last.args[3]).exc # "none"
    /\ "balance" \in DOMAIN heap /\ heap.balance = Zero
    /\ ~acct

\* C9: one balance update publishes at most one message, and none when the
\* new balance lies in [LOW_BALANCE_LEVEL, LARGE_TRANSACTION_THRESHOLD].
C9_AtMostOneMessage ==
    (IsUpdateCall /\ last.reached)
        => /\ Len(last.published) <= 1
           /\ (FGe(heap.balance, Fin(LOW_BALANCE_LEVEL))
                 /\ FLe(heap.balance, Fin(LARGE_TRANSACTION_THRESHOLD)))
                 => last.published = <<>>

C9_Witness ==
    /\ IsUpdateCall /\ last.reached
    /\ FEq(heap.balance, Fin(LARGE_TRANSACTION_THRESHOLD))
    /\ last.published = <<>>

\* C10: a balance that is >= 0 is still >= 0 after any deposit or withdraw
\* call, accepted or rejected.
C10_NeverOverdrawn ==
    [][(acct /\ FGe(heap.balance, Zero)) => FGe(heap'.balance, Zero)]_vars

====
